---- MODULE Spec2Model ----
(***************************************************************************)
(* Model of metrics-util/src/layers/prefix.rs: the Prefix<R> recorder      *)
(* decorator, the PrefixLayer factory, and the inner recorders that the    *)
(* decorators forward to.                                                  *)
(*                                                                         *)
(* Text is a sequence of characters.  A KeyName is its text; a Key is a    *)
(* record of a name and a sequence of labels; an attribute and a metric    *)
(* handle are opaque values.                                               *)
(***************************************************************************)
EXTENDS Naturals, Sequences, FiniteSets

VARIABLES
    layers,      \* the PrefixLayer values created so far, each a 1-tuple (field .0)
    chains,      \* per base recorder, the Prefix<R> values [prefix, inner] stacked on
                 \* it, innermost first: layer() takes its inner recorder by value,
                 \* so a recorder is wrapped at most once and only the outermost
                 \* decorator of a chain can be called
    built,       \* ghost: for each decorator, the layer and the inner given to layer()
    observed,    \* per base recorder, the operations it has received, in order
    calls,       \* ghost: the operations applied to decorators, in order
    returned,    \* ghost: what the last call's base recorder produced and what
                 \* the caller of the decorator got back
    tests        \* the instances of the test_key_vs_key_name scenario

vars == <<layers, chains, built, observed, calls, returned, tests>>

----------------------------------------------------------------------------
(* Bounds and input sets *)

MaxDecorators == 2   \* decorators built by layer(), over all base recorders
MaxCalls == 1        \* calls made while decorators are still being layered
MaxSeq == 2          \* calls in a sequence applied to one finished decorator
MaxLen == 2          \* length of the texts of the rewrite scenario

Chars == {"a", "."}

\* every text over Chars of length at most n
Text(n) == UNION {[1..k -> Chars] : k \in 0..n}

\* the prefixes and names fed to the recorder operations
Prefixes == {<<>>, <<"a", ".">>}
Names == {<<>>, <<".", "a">>}

Label(k, v) == [key |-> k, value |-> v]
LabelLists == {<<>>, <<Label("k1", "v1"), Label("k2", "v2")>>}
Attributes == {"counter desc", "gauge desc"}

\* the base (non-decorator) recorders decorators are layered over
Bases == {"b1", "b2"}
\* a recorder R: the base recorder b itself (level 0), or the level-th
\* decorator stacked on it
Recorder(b, level) == [base |-> b, level |-> level]
IsBase(r) == r.level = 0
Handles == {"noop", "h1"}
Unit == "()"
Panic == "panic"

AttributeOps == {"set_counter_attribute", "set_gauge_attribute", "set_histogram_attribute"}
RegisterOps == {"register_counter", "register_gauge", "register_histogram"}

----------------------------------------------------------------------------
(* Text and key primitives *)

String_with_capacity(n) == <<>>
push_str(buf, s) == buf \o s
push(buf, c) == Append(buf, c)

Key_from_parts(name, labels) == [name |-> name, labels |-> labels]
Key_from_name(name) == Key_from_parts(name, <<>>)
KeyName_from(s) == s

Key_name(key) == key.name
Key_labels(key) == key.labels
KeyName_as_str(key_name) == key_name

\* prefix_key with the labels left behind (Key::from_name in place of from_parts)
prefix_key_without_labels(self, key) ==
    Key_from_name(push_str(push(push_str(<<>>, self.prefix), "."), Key_name(key)))

\* prefix_key with the separator forgotten
prefix_key_without_separator(self, key) ==
    Key_from_parts(push_str(push_str(<<>>, self.prefix), Key_name(key)), Key_labels(key))

\* Prefix::prefix_key
prefix_key(self, key) ==
    LET b0 == String_with_capacity(Len(self.prefix) + 1 + Len(Key_name(key)))
        b1 == push_str(b0, self.prefix)
        b2 == push(b1, ".")
        new_name == push_str(b2, Key_name(key))
    IN  Key_from_parts(new_name, Key_labels(key))

\* prefix_key_name with the name put before the prefix
prefix_key_name_swapped(self, key_name) ==
    KeyName_from(push_str(push(push_str(<<>>, KeyName_as_str(key_name)), "."), self.prefix))

\* prefix_key_name with the separator forgotten
prefix_key_name_without_separator(self, key_name) ==
    KeyName_from(push_str(push_str(<<>>, self.prefix), KeyName_as_str(key_name)))

\* prefix_key_name that leaves alone a name that already starts with the prefix
prefix_key_name_idempotent(self, key_name) ==
    LET lead == push(push_str(<<>>, self.prefix), ".")
        name == KeyName_as_str(key_name)
    IN  IF Len(lead) <= Len(name) /\ SubSeq(name, 1, Len(lead)) = lead
        THEN key_name
        ELSE KeyName_from(push_str(lead, name))

\* Prefix::prefix_key_name
prefix_key_name(self, key_name) ==
    LET b0 == String_with_capacity(Len(self.prefix) + 1 + Len(KeyName_as_str(key_name)))
        b1 == push_str(b0, self.prefix)
        b2 == push(b1, ".")
        new_name == push_str(b2, KeyName_as_str(key_name))
    IN  KeyName_from(new_name)

----------------------------------------------------------------------------
(* impl Recorder for Prefix<R>.  A handler takes the decorator (self), its  *)
(* arguments, the configuration (cfg: the chains), the base recorders'     *)
(* logs so far (obs) and the outcome the base recorder at the end of the   *)
(* chain will produce (out); it yields the logs afterwards and what the    *)
(* handler hands back to its caller.                                       *)

\* a base recorder receiving an operation: it records it and produces out
Base_call(r, entry, obs, out) ==
    [obs |-> [obs EXCEPT ![r.base] = Append(@, entry)], ret |-> out]

RECURSIVE Recorder_call(_, _, _, _, _, _, _)

\* set_counter_attribute with the name buffer kept from the previous call
set_counter_attribute_reused_buffer(self, key, attribute, cfg, obs, out) ==
    LET earlier == obs[self.inner.base]
        kept == IF earlier # <<>> /\ earlier[Len(earlier)].op \in AttributeOps
                THEN earlier[Len(earlier)].key_name
                ELSE <<>>
        new_key == kept \o prefix_key_name(self, key)
    IN  Recorder_call(self.inner, "set_counter_attribute", new_key, attribute, cfg, obs, out)

set_counter_attribute(self, key, attribute, cfg, obs, out) ==
    LET new_key == prefix_key_name(self, key)
    IN  Recorder_call(self.inner, "set_counter_attribute", new_key, attribute, cfg, obs, out)

\* set_gauge_attribute forwarding to the inner recorder's counter operation
set_gauge_attribute_as_counter(self, key, attribute, cfg, obs, out) ==
    LET new_key == prefix_key_name(self, key)
    IN  Recorder_call(self.inner, "set_counter_attribute", new_key, attribute, cfg, obs, out)

set_gauge_attribute(self, key, attribute, cfg, obs, out) ==
    LET new_key == prefix_key_name(self, key)
    IN  Recorder_call(self.inner, "set_gauge_attribute", new_key, attribute, cfg, obs, out)

\* set_histogram_attribute catching the inner recorder's panic
set_histogram_attribute_catching(self, key, attribute, cfg, obs, out) ==
    LET new_key == prefix_key_name(self, key)
        res == Recorder_call(self.inner, "set_histogram_attribute", new_key, attribute,
                             cfg, obs, out)
    IN  [res EXCEPT !.ret = Unit]

set_histogram_attribute(self, key, attribute, cfg, obs, out) ==
    LET new_key == prefix_key_name(self, key)
    IN  Recorder_call(self.inner, "set_histogram_attribute", new_key, attribute, cfg, obs, out)

\* register_counter handing back a no-op handle of its own
register_counter_noop(self, key, cfg, obs, out) ==
    LET new_key == prefix_key(self, key)
        res == Recorder_call(self.inner, "register_counter", new_key, Unit, cfg, obs, out)
    IN  [res EXCEPT !.ret = IF @ = Panic THEN Panic ELSE "noop"]

register_counter(self, key, cfg, obs, out) ==
    LET new_key == prefix_key(self, key)
    IN  Recorder_call(self.inner, "register_counter", new_key, Unit, cfg, obs, out)

register_gauge(self, key, cfg, obs, out) ==
    LET new_key == prefix_key(self, key)
    IN  Recorder_call(self.inner, "register_gauge", new_key, Unit, cfg, obs, out)

register_histogram(self, key, cfg, obs, out) ==
    LET new_key == prefix_key(self, key)
    IN  Recorder_call(self.inner, "register_histogram", new_key, Unit, cfg, obs, out)

\* the call self.inner.<op>(...): R is a base recorder or another Prefix
Recorder_call(r, op, key, arg, cfg, obs, out) ==
    IF IsBase(r)
    THEN IF op \in AttributeOps
         THEN Base_call(r, [op |-> op, key_name |-> key, attribute |-> arg], obs, out)
         ELSE Base_call(r, [op |-> op, key |-> key], obs, out)
    ELSE LET self == cfg[r.base][r.level]
         IN  CASE op = "set_counter_attribute" ->
                      set_counter_attribute(self, key, arg, cfg, obs, out)
               [] op = "set_gauge_attribute" ->
                      set_gauge_attribute(self, key, arg, cfg, obs, out)
               [] op = "set_histogram_attribute" ->
                      set_histogram_attribute(self, key, arg, cfg, obs, out)
               [] op = "register_counter" -> register_counter(self, key, cfg, obs, out)
               [] op = "register_gauge" -> register_gauge(self, key, cfg, obs, out)
               [] op = "register_histogram" -> register_histogram(self, key, cfg, obs, out)

----------------------------------------------------------------------------
(* PrefixLayer *)

String_from(s) == [i \in 1..Len(s) |-> s[i]]
into_boxed_str(s) == [i \in 1..Len(s) |-> s[i]]
Box_leak(s) == s
SharedString_from(s) == [i \in 1..Len(s) |-> s[i]]

\* PrefixLayer::new
PrefixLayer_new(prefix) == <<Box_leak(into_boxed_str(String_from(prefix)))>>

\* layer() wrapping the first base recorder whatever inner it is given
PrefixLayer_layer_fixed_inner(self, inner) ==
    [prefix |-> SharedString_from(self[1]), inner |-> Recorder("b1", 0)]

\* <PrefixLayer as Layer<R>>::layer
PrefixLayer_layer(self, inner) == [prefix |-> SharedString_from(self[1]), inner |-> inner]

----------------------------------------------------------------------------
(* The state machine *)

NoReturn == [inner |-> "none", outer |-> "none"]

\* the outermost recorder over base b: the one a caller holds
Top(b) == Recorder(b, Len(chains[b]))
Callable == {b \in Bases : Len(chains[b]) > 0}
\* every decorator built so far
Decorators == UNION {{Recorder(b, k) : k \in 1..Len(chains[b])} : b \in Bases}

Init ==
    /\ layers = {}
    /\ chains = [b \in Bases |-> <<>>]
    /\ built = [b \in Bases |-> <<>>]
    /\ observed = [b \in Bases |-> <<>>]
    /\ calls = <<>>
    /\ returned = NoReturn
    /\ tests = <<>>

\* PrefixLayer::new(prefix).  A PrefixLayer is an immutable value: two made
\* from the same text are the same value.
NewLayer ==
    \E prefix \in Prefixes :
        /\ layers' = layers \cup {PrefixLayer_new(prefix)}
        /\ UNCHANGED <<chains, built, observed, calls, returned, tests>>

\* l.layer(inner), inner the outermost recorder over some base
Layer ==
    \E l \in layers, b \in Bases :
        /\ Cardinality(Decorators) < MaxDecorators
        /\ chains' = [chains EXCEPT ![b] = Append(@, PrefixLayer_layer(l, Top(b)))]
        /\ built' = [built EXCEPT ![b] = Append(@, [layer |-> l, inner |-> Top(b)])]
        /\ UNCHANGED <<layers, observed, calls, returned, tests>>

\* the effect of one call whose handler produced res
Applied(call, out, res) ==
    /\ observed' = res.obs
    /\ calls' = Append(calls, call)
    /\ returned' = [inner |-> out, outer |-> res.ret]
    /\ UNCHANGED <<layers, chains, built, tests>>

AttributeCall(d, op, key, attribute) ==
    [target |-> d, op |-> op, key_name |-> key, attribute |-> attribute]
RegisterCall(d, op, key) == [target |-> d, op |-> op, key |-> key]
Self(d) == chains[d.base][d.level]

SetCounterAttribute(in) ==
    \E b \in Callable, key \in in.names, attribute \in in.attributes, out \in in.units :
        /\ Len(calls) < in.limit
        /\ Applied(AttributeCall(Top(b), "set_counter_attribute", key, attribute), out,
                   set_counter_attribute(Self(Top(b)), key, attribute, chains, observed, out))

SetGaugeAttribute(in) ==
    \E b \in Callable, key \in in.names, attribute \in in.attributes, out \in in.units :
        /\ Len(calls) < in.limit
        /\ Applied(AttributeCall(Top(b), "set_gauge_attribute", key, attribute), out,
                   set_gauge_attribute(Self(Top(b)), key, attribute, chains, observed, out))

SetHistogramAttribute(in) ==
    \E b \in Callable, key \in in.names, attribute \in in.attributes, out \in in.units :
        /\ Len(calls) < in.limit
        /\ Applied(AttributeCall(Top(b), "set_histogram_attribute", key, attribute), out,
                   set_histogram_attribute(Self(Top(b)), key, attribute, chains, observed, out))

RegisterCounter(in) ==
    \E b \in Callable, name \in in.names, labels \in in.labels, out \in in.handles :
        /\ Len(calls) < in.limit
        /\ LET key == Key_from_parts(name, labels)
           IN  Applied(RegisterCall(Top(b), "register_counter", key), out,
                       register_counter(Self(Top(b)), key, chains, observed, out))

RegisterGauge(in) ==
    \E b \in Callable, name \in in.names, labels \in in.labels, out \in in.handles :
        /\ Len(calls) < in.limit
        /\ LET key == Key_from_parts(name, labels)
           IN  Applied(RegisterCall(Top(b), "register_gauge", key), out,
                       register_gauge(Self(Top(b)), key, chains, observed, out))

RegisterHistogram(in) ==
    \E b \in Callable, name \in in.names, labels \in in.labels, out \in in.handles :
        /\ Len(calls) < in.limit
        /\ LET key == Key_from_parts(name, labels)
           IN  Applied(RegisterCall(Top(b), "register_histogram", key), out,
                       register_histogram(Self(Top(b)), key, chains, observed, out))

\* what the calls are drawn from: the base recorder may return any handle,
\* or fail (panic)
Inputs(limit) ==
    [limit |-> limit, names |-> Names, attributes |-> Attributes, labels |-> LabelLists,
     units |-> {Unit, Panic}, handles |-> Handles \cup {Panic}]

\* layering and calls interleaved
Next ==
    \/ NewLayer
    \/ Layer
    \/ SetCounterAttribute(Inputs(MaxCalls))
    \/ SetGaugeAttribute(Inputs(MaxCalls))
    \/ SetHistogramAttribute(Inputs(MaxCalls))
    \/ RegisterCounter(Inputs(MaxCalls))
    \/ RegisterGauge(Inputs(MaxCalls))
    \/ RegisterHistogram(Inputs(MaxCalls))

Spec == Init /\ [][Next]_vars

\* tests::test_basic_functionality, for any prefix: one decorator made by a
\* layer over the recorder "b1", then a sequence of calls on it
SeqInit ==
    \E prefix \in Prefixes :
        LET l == PrefixLayer_new(prefix)
            recorder == Recorder("b1", 0)
        IN  /\ layers = {l}
            /\ chains = [b \in Bases |-> IF b = "b1" THEN <<PrefixLayer_layer(l, recorder)>>
                                                     ELSE <<>>]
            /\ built = [b \in Bases |-> IF b = "b1" THEN <<[layer |-> l, inner |-> recorder]>>
                                                    ELSE <<>>]
            /\ observed = [b \in Bases |-> <<>>]
            /\ calls = <<>>
            /\ returned = NoReturn
            /\ tests = <<>>

SeqNext ==
    \/ SetCounterAttribute(Inputs(MaxSeq))
    \/ SetGaugeAttribute(Inputs(MaxSeq))
    \/ SetHistogramAttribute(Inputs(MaxSeq))
    \/ RegisterCounter(Inputs(MaxSeq))
    \/ RegisterGauge(Inputs(MaxSeq))
    \/ RegisterHistogram(Inputs(MaxSeq))

SeqSpec == SeqInit /\ [][SeqNext]_vars

\* tests::test_key_vs_key_name, for any prefix and name and run on two
\* Prefix values side by side: each is built directly, with inner (), and
\* both private rewrite functions are applied to the same name
TestInstances == {1, 2}

RewriteInit ==
    /\ layers = {}
    /\ chains = [b \in Bases |-> <<>>]
    /\ built = [b \in Bases |-> <<>>]
    /\ observed = [b \in Bases |-> <<>>]
    /\ calls = <<>>
    /\ returned = NoReturn
    /\ tests \in [TestInstances ->
                    {[prefix |-> [prefix |-> SharedString_from(p), inner |-> Unit],
                      runs |-> <<>>] : p \in Text(MaxLen)}]

test_key_vs_key_name ==
    \E i \in TestInstances, name \in Text(MaxLen) :
        /\ tests[i].runs = <<>>
        /\ LET prefix == tests[i].prefix
               key_name == KeyName_from(name)
               key == Key_from_name(key_name)
               prefixed_key == prefix_key(prefix, key)
               prefixed_key_name == prefix_key_name(prefix, key_name)
           IN  tests' = [tests EXCEPT ![i].runs =
                            <<[key_name |-> key_name, prefixed_key |-> prefixed_key,
                               prefixed_key_name |-> prefixed_key_name]>>]
        /\ UNCHANGED <<layers, chains, built, observed, calls, returned>>

RewriteNext == test_key_vs_key_name

RewriteSpec == RewriteInit /\ [][RewriteNext]_vars

----------------------------------------------------------------------------
(* Properties *)

\* the name an operation carries
NameOf(e) == IF e.op \in AttributeOps THEN e.key_name ELSE e.key.name
\* the calls made on decorators over base recorder b, in order
CallsTo(b) == SelectSeq(calls, LAMBDA c : c.target.base = b)
\* the prefix text the level-th decorator over b was built with
GivenPrefix(b, level) == built[b][level].layer[1]
Joined(p, n) == p \o <<".">> \o n
IsLeadingPart(s, t) == Len(s) <= Len(t) /\ SubSeq(t, 1, Len(s)) = s
\* the i-th call on a decorator over b and what b received for it
Pairs == {x \in Bases \X (1..Len(calls)) : x[2] <= Len(CallsTo(x[1]))}
Sent(x) == CallsTo(x[1])[x[2]]
Received(x) == observed[x[1]][x[2]]
ConfigAsBuilt ==
    \A b \in Bases :
        /\ Len(chains[b]) = Len(built[b])
        /\ \A k \in 1..Len(chains[b]) :
              /\ chains[b][k].prefix = GivenPrefix(b, k)
              /\ chains[b][k].inner = built[b][k].inner
OnePerCall == \A b \in Bases : Len(observed[b]) = Len(CallsTo(b))

\* C1: each of the six operations of a decorator with prefix P, called with
\* name N, forwards to the inner recorder the name P followed by one "."
\* followed by N, whatever P and N are (empty, or holding separators).
C1_PrefixCompositionLaw ==
    /\ OnePerCall
    /\ \A x \in Pairs :
          Sent(x).target.level = 1 =>
              NameOf(Received(x)) = Joined(GivenPrefix(x[1], 1), NameOf(Sent(x)))

\* C1 witness: a name-only operation whose prefix and name both hold a "."
\* and a full-key operation with the empty name have been forwarded
C1_Witness ==
    /\ Len(calls) = 2
    /\ GivenPrefix("b1", 1) = <<"a", ".">>
    /\ calls[1].op = "set_gauge_attribute" /\ calls[1].key_name = <<".", "a">>
    /\ observed["b1"][1].key_name = <<"a", ".", ".", ".", "a">>
    /\ calls[2].op = "register_histogram" /\ calls[2].key.name = <<>>
    /\ observed["b1"][2].key.name = <<"a", ".", ".">>

\* C2: a key passed to a register operation reaches the inner recorder with
\* exactly its labels, in the same order; only its name is changed.
C2_LabelsPreserved ==
    /\ OnePerCall
    /\ \A x \in Pairs :
          Sent(x).op \in RegisterOps =>
              /\ Received(x).key.labels = Sent(x).key.labels
              /\ DOMAIN Received(x).key = DOMAIN Sent(x).key

\* C2 witness: a key with two labels has been registered and forwarded
C2_Witness ==
    /\ calls # <<>>
    /\ calls[1].op = "register_gauge"
    /\ Len(calls[1].key.labels) = 2
    /\ observed["b1"][1].key.labels = <<Label("k1", "v1"), Label("k2", "v2")>>

\* C3: the inner recorder receives as many operations as were applied to the
\* decorator, in the same order, each of the same kind as the call it comes
\* from, with the rewritten name and the attribute untouched.
C3_SequenceFidelity ==
    /\ Len(observed["b1"]) = Len(calls)
    /\ observed["b2"] = <<>>
    /\ \A i \in 1..Len(calls) :
          /\ i <= Len(observed["b1"])
          /\ observed["b1"][i].op = calls[i].op
          /\ NameOf(observed["b1"][i]) = Joined(GivenPrefix("b1", 1), NameOf(calls[i]))
          /\ calls[i].op \in AttributeOps =>
                observed["b1"][i].attribute = calls[i].attribute
          /\ calls[i].op \in RegisterOps =>
                observed["b1"][i].key.labels = calls[i].key.labels

\* C3 witness: two calls of different kinds and different attributes arrived
\* in the order they were made
C3_Witness ==
    /\ Len(calls) = 2
    /\ calls[1].op = "set_gauge_attribute" /\ calls[1].attribute = "gauge desc"
    /\ calls[2].op = "set_counter_attribute" /\ calls[2].attribute = "counter desc"
    /\ observed["b1"][1].op = "set_gauge_attribute"
    /\ observed["b1"][1].attribute = "gauge desc"
    /\ observed["b1"][2].op = "set_counter_attribute"

\* C4: what a register operation of the decorator hands back is what the
\* inner recorder produced for the rewritten key.
C4_HandlePassThrough ==
    (calls # <<>> /\ calls[Len(calls)].op \in RegisterOps) =>
        returned.outer = returned.inner

\* C4 witness: the inner recorder returned a handle that is not the no-op
\* handle and the caller of register_counter got it
C4_Witness ==
    /\ calls # <<>>
    /\ calls[Len(calls)].op = "register_counter"
    /\ returned.inner = "h1"
    /\ returned.outer = "h1"

\* C5: the name-only path and the full-key path applied to a label-free key
\* of the same name give the same name.
C5_PathsAgree ==
    \A i \in TestInstances :
        tests[i].runs # <<>> =>
            Key_name(tests[i].runs[1].prefixed_key)
                = KeyName_as_str(tests[i].runs[1].prefixed_key_name)

\* C5 witness: the scenario has run with a prefix and a name that are not empty
C5_Witness ==
    /\ tests[1].runs # <<>>
    /\ tests[1].prefix.prefix = <<"a">>
    /\ tests[1].runs[1].key_name = <<".", "a">>
    /\ tests[1].runs[1].prefixed_key_name = <<"a", ".", ".", "a">>

\* the two instances of the scenario have run, with different prefixes
RanWithDistinctPrefixes ==
    /\ tests[1].runs # <<>>
    /\ tests[2].runs # <<>>
    /\ tests[1].prefix.prefix # tests[2].prefix.prefix
NamesDiffer ==
    /\ tests[1].runs[1].prefixed_key_name # tests[2].runs[1].prefixed_key_name
    /\ tests[1].runs[1].prefixed_key.name # tests[2].runs[1].prefixed_key.name

\* C6 as stated: decorators with different prefixes never forward the same
\* name, whatever the original names are.
C6_NoCollision == RanWithDistinctPrefixes => NamesDiffer

\* C6 as amended: decorators with different prefixes never forward the same
\* name, provided neither prefix followed by "." is a leading part of the
\* other prefix.
C6_NoCollisionUnlessNested ==
    (/\ RanWithDistinctPrefixes
     /\ ~IsLeadingPart(Append(tests[1].prefix.prefix, "."), tests[2].prefix.prefix)
     /\ ~IsLeadingPart(Append(tests[2].prefix.prefix, "."), tests[1].prefix.prefix))
        => NamesDiffer

\* C6 witness: two prefixes, one a leading part of the other but not up to a
\* ".", with names chosen to make the rewritten names as close as they get
C6_Witness ==
    /\ RanWithDistinctPrefixes
    /\ tests[1].prefix.prefix = <<"a">>
    /\ tests[2].prefix.prefix = <<"a", "a">>
    /\ tests[1].runs[1].key_name = <<"a", ".">>
    /\ tests[2].runs[1].key_name = <<".">>
    /\ NamesDiffer

\* C7: a PrefixLayer keeps the text it was made from, whatever it is; every
\* decorator it builds has that text as prefix and the recorder it was given
\* as inner; a call on a decorator reaches the base recorder under it and no
\* other, and leaves layers and decorators as they were built.
C7_LayerBuildsIndependentDecorators ==
    /\ layers \subseteq {<<p>> : p \in Prefixes}
    /\ \A b \in Bases : \A k \in 1..Len(built[b]) :
          /\ built[b][k].layer \in layers
          /\ built[b][k].inner = Recorder(b, k - 1)
    /\ ConfigAsBuilt
    /\ OnePerCall

\* C7 witness: the layer of the empty prefix has built a decorator over each
\* base recorder, and a call on one of them is seen by its own recorder only
C7_Witness ==
    /\ <<<<>>>> \in layers
    /\ Len(chains["b1"]) = 1 /\ Len(chains["b2"]) = 1
    /\ built["b1"][1].layer = <<<<>>>> /\ built["b2"][1].layer = <<<<>>>>
    /\ Len(calls) = 1 /\ calls[1].target.base = "b2"
    /\ observed["b1"] = <<>>
    /\ Len(observed["b2"]) = 1

\* C8: the caller of the decorator sees a failure exactly when the inner
\* recorder failed on the rewritten call; the inner recorder was then called
\* once, and the decorator's prefix and inner are as they were built.
C8_FailurePassThrough ==
    calls # <<>> =>
        /\ (returned.outer = Panic) <=> (returned.inner = Panic)
        /\ OnePerCall
        /\ ConfigAsBuilt

\* C8 witness: the inner recorder failed on an attribute operation and the
\* caller saw the failure
C8_Witness ==
    /\ calls # <<>>
    /\ calls[Len(calls)].op = "set_histogram_attribute"
    /\ returned.inner = Panic
    /\ returned.outer = Panic
    /\ Len(observed["b1"]) = Len(calls)

\* C9: the prefix is always the one given at construction, and what is
\* forwarded for a call depends on the prefix and the call's argument alone:
\* the same call made again after other calls forwards the same operation,
\* with the prefix in it once.
C9_Stateless ==
    /\ ConfigAsBuilt
    /\ \A x \in Pairs :
          /\ x[2] <= Len(observed[x[1]])
          /\ Len(NameOf(Received(x)))
                = Len(GivenPrefix(x[1], 1)) + 1 + Len(NameOf(Sent(x)))
          /\ \A y \in Pairs :
                (y[2] <= Len(observed[y[1]]) /\ Sent(x) = Sent(y))
                    => Received(x) = Received(y)

\* C9 witness: the same call has been made twice in a row
C9_Witness ==
    /\ Len(calls) = 2
    /\ calls[1] = calls[2]
    /\ calls[1].op = "set_counter_attribute"
    /\ calls[1].key_name = <<".", "a">>
    /\ observed["b1"][1] = observed["b1"][2]

\* C10: an operation called with name N on a decorator with prefix P_out
\* that wraps a decorator with prefix P_in reaches the base recorder once,
\* as the same operation with the same labels or attribute, under the name
\* P_in "." P_out "." N.
C10_NestedPrefixes ==
    /\ OnePerCall
    /\ \A x \in Pairs :
          Sent(x).target.level = 2 =>
              /\ Received(x).op = Sent(x).op
              /\ NameOf(Received(x))
                    = Joined(GivenPrefix(x[1], 1),
                             Joined(GivenPrefix(x[1], 2), NameOf(Sent(x))))
              /\ Sent(x).op \in RegisterOps =>
                    Received(x).key.labels = Sent(x).key.labels
              /\ Sent(x).op \in AttributeOps =>
                    Received(x).attribute = Sent(x).attribute

\* C10 witness: a call through two decorators with different prefixes
C10_Witness ==
    /\ Len(calls) = 1
    /\ calls[1].target = Recorder("b1", 2)
    /\ GivenPrefix("b1", 1) = <<>>
    /\ GivenPrefix("b1", 2) = <<"a", ".">>
    /\ calls[1].op = "register_gauge"
    /\ calls[1].key.name = <<".", "a">>
    /\ observed["b1"][1].key.name = <<".", "a", ".", ".", ".", "a">>

====
